---- MODULE Spec2Model ----
(***************************************************************************)
(* Model of "Python day 4/hrms_api_data_extraction.py": the paginated      *)
(* ingestion loop make_api_request, its token helper                       *)
(* get_new_access_token, the final write save_to_s3_parquet and the log    *)
(* upload of the __main__ block.  The token provider, the data provider    *)
(* and the object store are the environment: every response they can give  *)
(* is drawn nondeterministically from a small set.                         *)
(***************************************************************************)
EXTENDS Integers, Sequences, FiniteSets, TLC

\* ---- bounds ----
MaxIter == 3          \* loop iterations (pages attempted) explored per run
MaxRows == 2          \* records carried by one page
MaxGuesses == 2       \* Q7: lines typed at the prompt
MaxLineLen == 2       \* Q7: characters of a typed line
MaxCore == 4          \* Q9: freely chosen leading characters of a password
MaxPad == 9           \* Q9: padding characters after them

\* ---- values ----
None == 0             \* Python None / a falsy token
Unbound == -1         \* "return ACCESS_TOKEN" with the local never assigned

TokenStatuses == {200, 201, 400}
DataStatuses == {200, 201, 401, 500}
Timestamps == {1, 2}

VARIABLES
  pc,                \* position of the script
  current_timestamp, \* __main__: the run timestamp
  ACCESS_TOKEN,      \* make_api_request: the live credential
  api_headers,       \* bearer token of the Authorization header
  api_response,      \* the response being handled
  overall_df,        \* the accumulated rows
  sinkCalls,         \* datasets handed to save_to_s3_parquet, in order
  logUploads,        \* calls of upload_log_to_s3
  reported,          \* the final "completed successfully" line was logged
  tokenLog,          \* responses of the token provider, in order
  replacements,      \* times the live credential was replaced in the loop
  dataReqs,          \* requests received by the data provider
  sentTokens,        \* bearer token of every data request, in order
  iter,              \* loop iterations started
  iterTokenReqs,     \* token requests of the current iteration
  iterDataReqs,      \* data requests of the current iteration
  pages,             \* pages the data provider has served, in order
  fatal,             \* why the loop was left ("" while it has not been)
  logStatus,         \* upload_log_to_s3: "none", "uploaded" or "failed"
  q7pc,              \* Q7: position of the script
  q7i,               \* Q7: the last value of i
  q7out,             \* Q7: what each pass of the loop printed, in order
  q7guesses,         \* Q7: the lines typed at the prompt, in order
  q9pc,              \* Q9: position of the script
  pw,                \* Q9: the password typed, a sequence of character codes
  q9out              \* Q9: the line validate printed ("" before it ran)

hrmsVars == <<pc, current_timestamp, ACCESS_TOKEN, api_headers, api_response,
          overall_df, sinkCalls, logUploads, reported, tokenLog, replacements,
          dataReqs, sentTokens, iter, iterTokenReqs, iterDataReqs, pages,
          fatal>>

\* the state of the two exercise scripts
q7Vars == <<q7pc, q7i, q7out, q7guesses>>
q9Vars == <<q9pc, pw, q9out>>
exerciseVars == <<q7Vars, q9Vars>>

vars == <<hrmsVars, logStatus, exerciseVars>>

\* requests received by the token provider
tokenReqs == Len(tokenLog)

\* ---- the environment's responses ----

\* token provider: a status and the access_token field (None: absent/empty);
\* a fresh token is numbered by the request that obtained it
TokenResponses ==
  {[status |-> s, access_token |-> t] :
      s \in TokenStatuses, t \in {None, tokenReqs + 1}}

\* the records of the page the provider serves next: the cursor is
\* server-side, so the page is numbered by the pages served so far
PageRows(n) == [i \in 1..n |-> [page |-> Len(pages) + 1, idx |-> i]]

NoBody == [kind |-> "none", rows |-> <<>>, hasFlag |-> FALSE, isLoadComplete |-> FALSE]

\* data provider: 2xx with a well-formed page (with or without the
\* isLoadComplete field), 2xx without the record path,
\* 2xx with a record that lacks BasicDetails/BasicDetail, or an error status
DataResponses ==
  {[status |-> s, body |-> [kind |-> "page", rows |-> PageRows(n),
                            hasFlag |-> f[1], isLoadComplete |-> f[2]]] :
      s \in {200, 201}, n \in 0..MaxRows,
      f \in {<<TRUE, TRUE>>, <<TRUE, FALSE>>, <<FALSE, FALSE>>}}
  \cup
  {[status |-> s, body |-> [NoBody EXCEPT !.kind = k]] :
      s \in {200, 201}, k \in {"nopath", "badrow"}}
  \cup
  {[status |-> s, body |-> NoBody] : s \in DataStatuses \ {200, 201}}

NoResponse == [status |-> 0, body |-> NoBody]

\* the provider's cursor advances when it serves a well-formed page
Served(resp) ==
  IF resp.body.kind = "page"
    THEN Append(pages, [rows |-> resp.body.rows,
                        complete |-> resp.body.hasFlag /\ resp.body.isLoadComplete])
    ELSE pages

\* ---- get_new_access_token ----
\* variant: the status test is left out
GetNewAccessTokenAnyStatus(token_response) ==
  IF token_response.access_token # None
    THEN token_response.access_token
    ELSE Unbound

GetNewAccessToken(token_response) ==
  IF token_response.status = 200
    THEN IF token_response.access_token # None
           THEN token_response.access_token
           ELSE Unbound
    ELSE None

\* ---- pieces of make_api_request ----
IsTokenExpired(status) == status = 401

\* variant: any status from 200 up passes
IsSuccessStatusLoose(status) == status >= 200

IsSuccessStatus(status) == status \in {200, 201}

HasRecordPath(body) == body.kind # "nopath"

HasBasicDetail(body) == body.kind # "badrow"

GetIsLoadComplete(body) == IF body.hasFlag THEN body.isLoadComplete ELSE FALSE

\* variant: the rows are tagged with a constant flag, not the page's
BuildDfConstantFlag(rowData_list, is_load_complete, ts) ==
  [i \in 1..Len(rowData_list) |->
     [data |-> rowData_list[i],
      isLoadCompleted |-> FALSE,
      EXTRACT_TIMESTAMP |-> ts]]

\* df: one row per record, tagged with the page flag and the run timestamp
BuildDf(rowData_list, is_load_complete, ts) ==
  [i \in 1..Len(rowData_list) |->
     [data |-> rowData_list[i],
      isLoadCompleted |-> is_load_complete,
      EXTRACT_TIMESTAMP |-> ts]]

\* variant: the completion flag alone stops the loop
StopOnCompleteAlone(is_load_complete, df) == is_load_complete

\* variant: completion or emptiness, either one, stops the loop
StopOnEither(is_load_complete, df) == is_load_complete \/ Len(df) = 0

\* variant: an empty page alone stops the loop
StopOnEmptyAlone(is_load_complete, df) == Len(df) = 0

\* variant: the row test of the stop condition is inverted
StopOnCompleteWithRows(is_load_complete, df) == is_load_complete /\ Len(df) > 0

StopCondition(is_load_complete, df) == is_load_complete /\ Len(df) = 0

HasData(df) == Len(df) > 0

\* variant: the page replaces the accumulated frame
ConcatReplace(overall, df) == df

\* variant: the page is put in front of the accumulated frame
ConcatPrepend(overall, df) == df \o overall

Concat(overall, df) == overall \o df

\* variant: the emptiness test is left out
AlwaysSave(overall) == TRUE

ShouldSave(overall) == Len(overall) > 0

\* the exercise scripts are not running
Q7Idle == q7pc = "idle" /\ q7i = 0 /\ q7out = <<>> /\ q7guesses = <<>>

Q9Idle == q9pc = "idle" /\ pw = <<>> /\ q9out = ""

\* ---- initial state: the script has started, nothing requested yet ----
HrmsStart ==
  /\ pc = "start"
  /\ current_timestamp \in Timestamps
  /\ ACCESS_TOKEN = None
  /\ api_headers = None
  /\ api_response = NoResponse
  /\ overall_df = <<>>
  /\ sinkCalls = <<>>
  /\ logUploads = 0
  /\ reported = FALSE
  /\ tokenLog = <<>>
  /\ replacements = 0
  /\ dataReqs = 0
  /\ sentTokens = <<>>
  /\ iter = 0
  /\ iterTokenReqs = 0
  /\ iterDataReqs = 0
  /\ pages = <<>>
  /\ fatal = ""
  /\ logStatus = "none"

Init == HrmsStart /\ Q7Idle /\ Q9Idle

\* make_api_request, initial authentication
Authenticate ==
  /\ pc = "start"
  /\ \E token_response \in TokenResponses :
       LET tok == GetNewAccessToken(token_response) IN
         /\ tokenLog' = Append(tokenLog, token_response)
         /\ IF tok = Unbound
              THEN /\ pc' = "crashed"
                   /\ fatal' = "UnboundLocalError"
                   /\ UNCHANGED ACCESS_TOKEN
              ELSE IF tok = None
                THEN /\ pc' = "returned"
                     /\ fatal' = "auth"
                     /\ ACCESS_TOKEN' = tok
                ELSE /\ pc' = "loop"
                     /\ fatal' = fatal
                     /\ ACCESS_TOKEN' = tok
  /\ UNCHANGED <<exerciseVars, logStatus,
                 current_timestamp, api_headers, api_response, overall_df,
                 sinkCalls, logUploads, reported, replacements, dataReqs,
                 sentTokens, iter,
                 iterTokenReqs, iterDataReqs, pages>>

\* top of the loop: headers from the live token, first request of the page
FetchPage ==
  /\ pc = "loop"
  /\ iter < MaxIter
  /\ \E resp \in DataResponses :
       /\ api_response' = resp
       /\ pages' = Served(resp)
       /\ pc' = IF IsTokenExpired(resp.status) THEN "reauth" ELSE "handle"
  /\ api_headers' = ACCESS_TOKEN
  /\ sentTokens' = Append(sentTokens, ACCESS_TOKEN)
  /\ dataReqs' = dataReqs + 1
  /\ iter' = iter + 1
  /\ iterTokenReqs' = 0
  /\ iterDataReqs' = 1
  /\ UNCHANGED <<exerciseVars, logStatus,
                 current_timestamp, ACCESS_TOKEN, overall_df, sinkCalls,
                 logUploads, reported, tokenLog, replacements, fatal>>

\* variant: the refreshed token is not tested before the retry
ReauthenticateUnchecked ==
  /\ pc = "reauth"
  /\ \E token_response \in TokenResponses :
       LET tok == GetNewAccessToken(token_response) IN
         /\ tokenLog' = Append(tokenLog, token_response)
         /\ iterTokenReqs' = iterTokenReqs + 1
         /\ IF tok = Unbound
              THEN /\ pc' = "crashed"
                   /\ fatal' = "UnboundLocalError"
                   /\ UNCHANGED <<ACCESS_TOKEN, replacements>>
              ELSE IF tok = None
                THEN /\ pc' = "retry"
                     /\ fatal' = fatal
                     /\ ACCESS_TOKEN' = tok
                     /\ UNCHANGED replacements
                ELSE /\ pc' = "retry"
                     /\ fatal' = fatal
                     /\ ACCESS_TOKEN' = tok
                     /\ replacements' = replacements + 1
  /\ UNCHANGED <<exerciseVars, logStatus,
                 current_timestamp, api_headers, api_response, overall_df,
                 sinkCalls, logUploads, reported, dataReqs, sentTokens, iter,
                 iterDataReqs, pages>>

\* the 401 branch: refresh the token, leave the loop when that fails
Reauthenticate ==
  /\ pc = "reauth"
  /\ \E token_response \in TokenResponses :
       LET tok == GetNewAccessToken(token_response) IN
         /\ tokenLog' = Append(tokenLog, token_response)
         /\ iterTokenReqs' = iterTokenReqs + 1
         /\ IF tok = Unbound
              THEN /\ pc' = "crashed"
                   /\ fatal' = "UnboundLocalError"
                   /\ UNCHANGED <<ACCESS_TOKEN, replacements>>
              ELSE IF tok = None
                THEN /\ pc' = "save"
                     /\ fatal' = "reauth"
                     /\ ACCESS_TOKEN' = tok
                     /\ UNCHANGED replacements
                ELSE /\ pc' = "retry"
                     /\ fatal' = fatal
                     /\ ACCESS_TOKEN' = tok
                     /\ replacements' = replacements + 1
  /\ UNCHANGED <<exerciseVars, logStatus,
                 current_timestamp, api_headers, api_response, overall_df,
                 sinkCalls, logUploads, reported, dataReqs, sentTokens, iter,
                 iterDataReqs, pages>>

\* variant: a 401 on the retry refreshes the token again
RetryPageLooping ==
  /\ pc = "retry"
  /\ \E resp \in DataResponses :
       /\ api_response' = resp
       /\ pages' = Served(resp)
       /\ pc' = IF IsTokenExpired(resp.status) THEN "reauth" ELSE "handle"
  /\ api_headers' = ACCESS_TOKEN
  /\ sentTokens' = Append(sentTokens, ACCESS_TOKEN)
  /\ dataReqs' = dataReqs + 1
  /\ iterDataReqs' = iterDataReqs + 1
  /\ UNCHANGED <<exerciseVars, logStatus,
                 current_timestamp, ACCESS_TOKEN, overall_df, sinkCalls,
                 logUploads, reported, tokenLog, replacements, iter,
                 iterTokenReqs, fatal>>

\* variant: the retry goes out with the header built before the refresh
RetryPageStaleHeader ==
  /\ pc = "retry"
  /\ \E resp \in DataResponses :
       /\ api_response' = resp
       /\ pages' = Served(resp)
  /\ api_headers' = api_headers
  /\ sentTokens' = Append(sentTokens, api_headers)
  /\ dataReqs' = dataReqs + 1
  /\ iterDataReqs' = iterDataReqs + 1
  /\ pc' = "handle"
  /\ UNCHANGED <<exerciseVars, logStatus,
                 current_timestamp, ACCESS_TOKEN, overall_df, sinkCalls,
                 logUploads, reported, tokenLog, replacements, iter,
                 iterTokenReqs, fatal>>

\* the retry of the same request with the new token
RetryPage ==
  /\ pc = "retry"
  /\ \E resp \in DataResponses :
       /\ api_response' = resp
       /\ pages' = Served(resp)
  /\ api_headers' = ACCESS_TOKEN
  /\ sentTokens' = Append(sentTokens, ACCESS_TOKEN)
  /\ dataReqs' = dataReqs + 1
  /\ iterDataReqs' = iterDataReqs + 1
  /\ pc' = "handle"
  /\ UNCHANGED <<exerciseVars, logStatus,
                 current_timestamp, ACCESS_TOKEN, overall_df, sinkCalls,
                 logUploads, reported, tokenLog, replacements, iter,
                 iterTokenReqs, fatal>>

\* status check, extraction, tagging, stop test and accumulation
HandleResponse ==
  /\ pc = "handle"
  /\ LET body == api_response.body
         is_load_complete == GetIsLoadComplete(body)
         df == BuildDf(body.rows, is_load_complete, current_timestamp)
     IN
       IF ~IsSuccessStatus(api_response.status)
         THEN /\ pc' = "save"
              /\ fatal' = IF api_response.status = 401 THEN "second401" ELSE "http"
              /\ UNCHANGED overall_df
         ELSE IF ~HasRecordPath(body)
           THEN /\ pc' = "save"
                /\ fatal' = "schema"
                /\ UNCHANGED overall_df
           ELSE IF ~HasBasicDetail(body)
             THEN /\ pc' = "crashed"
                  /\ fatal' = "KeyError"
                  /\ UNCHANGED overall_df
             ELSE IF StopCondition(is_load_complete, df)
               THEN /\ pc' = "save"
                    /\ fatal' = fatal
                    /\ UNCHANGED overall_df
               ELSE /\ pc' = "loop"
                    /\ fatal' = fatal
                    /\ overall_df' = IF HasData(df) THEN Concat(overall_df, df)
                                                    ELSE overall_df
  /\ UNCHANGED <<exerciseVars, logStatus,
                 current_timestamp, ACCESS_TOKEN, api_headers, api_response,
                 sinkCalls, logUploads, reported, tokenLog, replacements, dataReqs,
                 sentTokens, iter, iterTokenReqs, iterDataReqs, pages>>

\* variant: the frame of the last page is written instead of the whole one
SaveLastPageAndReport ==
  /\ pc = "save"
  /\ IF ShouldSave(overall_df)
       THEN /\ sinkCalls' = Append(sinkCalls,
                 BuildDf(api_response.body.rows,
                         GetIsLoadComplete(api_response.body),
                         current_timestamp))
            /\ \E ok \in BOOLEAN :
                 /\ pc' = IF ok THEN "returned" ELSE "crashed"
                 /\ reported' = ok
       ELSE /\ sinkCalls' = sinkCalls
            /\ pc' = "returned"
            /\ reported' = TRUE
  /\ UNCHANGED <<exerciseVars, logStatus,
                 current_timestamp, ACCESS_TOKEN, api_headers, api_response,
                 overall_df, logUploads, tokenLog, replacements, dataReqs,
                 sentTokens, iter,
                 iterTokenReqs, iterDataReqs, pages, fatal>>

\* variant: the closing log line is written only when the loop ended normally
SaveAndReportOnSuccess ==
  /\ pc = "save"
  /\ IF ShouldSave(overall_df)
       THEN /\ sinkCalls' = Append(sinkCalls, overall_df)
            /\ \E ok \in BOOLEAN :
                 /\ pc' = IF ok THEN "returned" ELSE "crashed"
                 /\ reported' = (ok /\ fatal = "")
       ELSE /\ sinkCalls' = sinkCalls
            /\ pc' = "returned"
            /\ reported' = (fatal = "")
  /\ UNCHANGED <<exerciseVars, logStatus,
                 current_timestamp, ACCESS_TOKEN, api_headers, api_response,
                 overall_df, logUploads, tokenLog, replacements, dataReqs,
                 sentTokens, iter,
                 iterTokenReqs, iterDataReqs, pages, fatal>>

\* after the loop: one write of the whole frame when it is not empty, then
\* the closing log line; put_object may raise
SaveAndReport ==
  /\ pc = "save"
  /\ IF ShouldSave(overall_df)
       THEN /\ sinkCalls' = Append(sinkCalls, overall_df)
            /\ \E ok \in BOOLEAN :
                 /\ pc' = IF ok THEN "returned" ELSE "crashed"
                 /\ reported' = ok
       ELSE /\ sinkCalls' = sinkCalls
            /\ pc' = "returned"
            /\ reported' = TRUE
  /\ UNCHANGED <<exerciseVars, logStatus,
                 current_timestamp, ACCESS_TOKEN, api_headers, api_response,
                 overall_df, logUploads, tokenLog, replacements, dataReqs,
                 sentTokens, iter,
                 iterTokenReqs, iterDataReqs, pages, fatal>>

\* __main__ after make_api_request returned: upload the log; an exception
\* of the upload is caught inside upload_log_to_s3 and logged
UploadLog ==
  /\ pc = "returned"
  /\ logUploads' = logUploads + 1
  /\ \E ok \in BOOLEAN : logStatus' = IF ok THEN "uploaded" ELSE "failed"
  /\ pc' = "exit"
  /\ UNCHANGED <<exerciseVars, current_timestamp, ACCESS_TOKEN, api_headers,
                 api_response, overall_df, sinkCalls, reported, tokenLog,
                 replacements, dataReqs, sentTokens, iter, iterTokenReqs,
                 iterDataReqs, pages, fatal>>

Next ==
  \/ Authenticate
  \/ FetchPage
  \/ Reauthenticate
  \/ RetryPage
  \/ HandleResponse
  \/ SaveAndReport
  \/ UploadLog

Spec == Init /\ [][Next]_vars

\* ---- Assessment/Q7.py: the guessing loop ----
number == 10

\* the characters a typed line is made of, and the lines
DigitChars == {"0", "1", "9"}
Chars == DigitChars \cup {"-", "x"}
Lines == UNION {[1..n -> Chars] : n \in 1..MaxLineLen}

DigitVal(c) == CASE c = "0" -> 0 [] c = "1" -> 1 [] c = "9" -> 9

IsDigits(s) == s # <<>> /\ \A k \in DOMAIN s : s[k] \in DigitChars

RECURSIVE DigitsValue(_)
DigitsValue(s) ==
  IF s = <<>> THEN 0
  ELSE DigitsValue(SubSeq(s, 1, Len(s) - 1)) * 10 + DigitVal(s[Len(s)])

\* int(line): an optional minus sign and decimal digits, else ValueError
IntOf(line) ==
  IF line # <<>> /\ line[1] = "-"
    THEN IF IsDigits(Tail(line))
           THEN [ok |-> TRUE, val |-> 0 - DigitsValue(Tail(line))]
           ELSE [ok |-> FALSE, val |-> 0]
    ELSE IF IsDigits(line)
           THEN [ok |-> TRUE, val |-> DigitsValue(line)]
           ELSE [ok |-> FALSE, val |-> 0]

\* variant: the comparison lets the number itself count as too small
IsTooSmallOrEqual(i) == i <= number

IsTooSmall(i) == i < number

IsTooLarge(i) == i > number

Q7Start == q7pc = "loop" /\ q7i = 0 /\ q7out = <<>> /\ q7guesses = <<>>

Q7Init == HrmsStart /\ Q7Start /\ Q9Idle

\* one pass of the loop: prompt, convert, compare, print or break
Q7Guess ==
  /\ q7pc = "loop"
  /\ Len(q7guesses) < MaxGuesses
  /\ \E line \in Lines :
       LET r == IntOf(line) IN
         /\ q7guesses' = Append(q7guesses, line)
         /\ IF ~r.ok
              THEN q7pc' = "crashed" /\ UNCHANGED <<q7i, q7out>>
              ELSE /\ q7i' = r.val
                   /\ IF IsTooSmall(r.val)
                        THEN q7pc' = "loop" /\ q7out' = Append(q7out, "too small")
                        ELSE IF IsTooLarge(r.val)
                          THEN q7pc' = "loop" /\ q7out' = Append(q7out, "too large")
                          ELSE q7pc' = "guessed" /\ q7out' = q7out
  /\ UNCHANGED <<hrmsVars, logStatus, q9Vars>>

\* after the loop: the congratulation
Q7Congratulate ==
  /\ q7pc = "guessed"
  /\ q7out' = Append(q7out, "congratulations")
  /\ q7pc' = "done"
  /\ UNCHANGED <<hrmsVars, logStatus, q9Vars, q7i, q7guesses>>

Q7Next ==
  \/ Q7Guess
  \/ Q7Congratulate

Q7Spec == Q7Init /\ [][Q7Next]_vars

\* ---- Assessment/Q9.py: the password rule ----

\* character codes: a Z 9 $ # @ and ! (in none of the classes)
Q9Chars == {97, 90, 57, 36, 35, 64, 33}
PadChar == 33

\* the passwords tried: up to MaxCore free characters, then padding
Passwords ==
  {core \o [k \in 1..n |-> PadChar] :
     core \in UNION {[1..m -> Q9Chars] : m \in 0..MaxCore}, n \in 0..MaxPad}

\* the character classes of the four patterns
LowerClass == 97..122
UpperClass == 65..90
DigitClass == 48..57
SpecialClass == {36, 35, 64}

\* re.search of a one-character class: some position matches
ReSearch(class, s) == \E k \in DOMAIN s : s[k] \in class

\* variant: the lower limit of the length is off by one
LengthOutOfRangeOffByOne(s) == Len(s) <= 6 \/ Len(s) > 12

LengthOutOfRange(s) == Len(s) < 6 \/ Len(s) > 12

\* validate: the line it prints
Validate(s) ==
  IF LengthOutOfRange(s)
    THEN "not valid"
    ELSE IF /\ ReSearch(LowerClass, s)
            /\ ReSearch(UpperClass, s)
            /\ ReSearch(DigitClass, s)
            /\ ReSearch(SpecialClass, s)
           THEN "valid"
           ELSE "not valid"

Q9Init ==
  /\ HrmsStart
  /\ current_timestamp = 1
  /\ Q7Idle
  /\ q9pc = "main"
  /\ pw \in Passwords
  /\ q9out = ""

\* main: validate(pw)
Q9Validate ==
  /\ q9pc = "main"
  /\ q9out' = Validate(pw)
  /\ q9pc' = "done"
  /\ UNCHANGED <<hrmsVars, logStatus, q7Vars, pw>>

Q9Next == Q9Validate

Q9Spec == Q9Init /\ [][Q9Next]_vars

\* ---- vocabulary of the properties ----

\* the script is past the fetch loop (or has died)
LoopLeft == pc \in {"save", "returned", "exit", "crashed"}

\* the loop ended on one of the fatal conditions it handles with a break
LoopEndedFatal == fatal \in {"http", "schema", "reauth", "second401"}

\* the records of a frame, without their tags
DataOf(df) == [i \in 1..Len(df) |-> df[i].data]

\* the records of all served pages, in the order they were served
RECURSIVE AllRows(_)
AllRows(ps) ==
  IF ps = <<>> THEN <<>>
  ELSE AllRows(SubSeq(ps, 1, Len(ps) - 1)) \o ps[Len(ps)].rows

\* how often a record occurs in a frame
Occurrences(df, rec) == Cardinality({j \in DOMAIN df : df[j].data = rec})

\* page k has been through the accumulation step
Handled(k) == k < Len(pages) \/ pc # "handle"

IsPrefix(a, b) == Len(a) <= Len(b) /\ SubSeq(b, 1, Len(a)) = a

TokenFailed(r) == r.status \notin {200, 201} \/ r.access_token = None

\* C1: when the loop ends on a fatal condition (error status, missing record
\* path, failed re-authentication, second 401) the sink is never invoked,
\* whatever has been accumulated.
C1_NoPartialFlush == LoopEndedFatal => sinkCalls = <<>>

\* C2: the rows of a served page that reports isLoadComplete=true and has at
\* least one row are in the ResultSet once the page has been handled, and in
\* what the sink is handed.
C2_LastBatchKept ==
  \A k \in 1..Len(pages) :
    (pages[k].complete /\ Len(pages[k].rows) > 0 /\ Handled(k)) =>
      \A i \in 1..Len(pages[k].rows) :
        /\ Occurrences(overall_df, pages[k].rows[i]) >= 1
        /\ sinkCalls # <<>> => Occurrences(sinkCalls[1], pages[k].rows[i]) >= 1

C2_Witness ==
  /\ pc = "exit"
  /\ Len(sinkCalls) = 1
  /\ Len(pages) >= 2
  /\ pages[Len(pages) - 1].complete
  /\ Len(pages[Len(pages) - 1].rows) > 0
  /\ Len(pages[Len(pages)].rows) = 0

\* C3: a run whose ResultSet is empty never invokes the sink; in particular
\* when the first page is complete with zero rows.
C3_ZeroRowsNoWrite == overall_df = <<>> => sinkCalls = <<>>

C3_Witness ==
  /\ pc = "exit"
  /\ fatal = ""
  /\ Len(pages) = 1
  /\ pages[1].complete
  /\ pages[1].rows = <<>>
  /\ sinkCalls = <<>>

\* C4: when a page is obtained by the retry after a 401 and a successful
\* re-authentication, handling it leaves the earlier rows as they were and
\* adds each of the page's rows exactly once.
C4_RecoveryExactlyOnce ==
  [][(/\ pc = "handle"
      /\ iterTokenReqs = 1
      /\ api_response.status \in {200, 201}
      /\ api_response.body.kind = "page")
     => (/\ IsPrefix(overall_df, overall_df')
         /\ Len(overall_df') = Len(overall_df) + Len(api_response.body.rows)
         /\ \A i \in 1..Len(api_response.body.rows) :
              Occurrences(overall_df', api_response.body.rows[i]) = 1)]_vars

C4_Witness ==
  /\ pc = "loop"
  /\ iterTokenReqs = 1
  /\ iterDataReqs = 2
  /\ \E j \in DOMAIN overall_df : overall_df[j].data.page = Len(pages)
  /\ \E j \in DOMAIN overall_df : overall_df[j].data.page < Len(pages)

\* C5: one loop iteration issues at most one token request and at most two
\* data requests; a failed re-authentication or a 401 on the retry ends the
\* loop, and once the loop is left no token or data request is issued.
C5_OneReauthOneRetry ==
  /\ [](iterTokenReqs <= 1 /\ iterDataReqs <= 2)
  /\ []((pc # "start" /\ ACCESS_TOKEN = None) => LoopLeft)
  /\ [][(pc = "handle" /\ api_response.status = 401) => LoopLeft']_vars
  /\ [][LoopLeft => tokenLog' = tokenLog /\ dataReqs' = dataReqs]_vars

C5_Witness ==
  /\ pc = "exit"
  /\ iterTokenReqs = 1
  /\ iterDataReqs = 2
  /\ api_response.status = 401

\* C6: the sink is invoked at most once, only after the loop has been left,
\* and with the whole accumulated ResultSet.
C6_SingleFlush ==
  /\ Len(sinkCalls) <= 1
  /\ sinkCalls # <<>> => (pc \in {"returned", "exit", "crashed"}
                          /\ sinkCalls[1] = overall_df)

C6_Witness ==
  /\ pc = "exit"
  /\ Len(sinkCalls) = 1
  /\ Len(pages) >= 3
  /\ \E j \in DOMAIN overall_df : overall_df[j].data.page = 1
  /\ \E j \in DOMAIN overall_df : overall_df[j].data.page = 2

\* C7: in a run without a fatal condition the records handed to the sink
\* are the records of all served pages, concatenated in the order of
\* fetching; each step leaves the ResultSet as it was or appends the rows of
\* the page being handled.
C7_OrderedAccumulation ==
  /\ []((fatal = "" /\ sinkCalls # <<>>) => DataOf(sinkCalls[1]) = AllRows(pages))
  /\ [][\/ overall_df' = overall_df
        \/ /\ pc = "handle"
           /\ IsPrefix(overall_df, overall_df')
           /\ DataOf(overall_df') = DataOf(overall_df) \o api_response.body.rows]_vars

C7_Witness ==
  /\ pc = "exit"
  /\ fatal = ""
  /\ Len(pages) = 3
  /\ Len(pages[1].rows) = 2
  /\ Len(pages[2].rows) = 1
  /\ pages[3].complete /\ pages[3].rows = <<>>
  /\ Len(sinkCalls) = 1
  /\ Len(sinkCalls[1]) = 3

\* C8: when the first token response has a status outside 2xx or no
\* access_token, the token request is not repeated, no data request is
\* issued and the sink is never invoked; the run is over.
C8_InitialAuthFatal ==
  (tokenLog # <<>> /\ TokenFailed(tokenLog[1])) =>
    /\ Len(tokenLog) = 1
    /\ dataReqs = 0
    /\ sinkCalls = <<>>
    /\ pc \in {"returned", "exit", "crashed"}
    /\ ~reported

C8_Witness ==
  /\ pc = "exit"
  /\ tokenLog # <<>>
  /\ tokenLog[1].status = 400
  /\ dataReqs = 0

\* C9 as stated: the credential obtained at the start of the run is replaced
\* at most once in the whole run.
C9_ReplacedAtMostOncePerRun == replacements <= 1

\* C9 as amended: the credential is replaced at most once per loop
\* iteration (page).
C9_ReplacedAtMostOncePerPage == replacements <= iter /\ iterTokenReqs <= 1

C9_Witness == replacements = 2 /\ iter = 2 /\ pc = "loop"

\* C10: a data response with a status other than 200/201 that reaches the
\* status check, or a 2xx response without the record path, ends the loop at
\* once, and after the loop no data request is issued.
C10_ErrorsStopPagination ==
  /\ [][(/\ pc = "handle"
         /\ \/ api_response.status \notin {200, 201}
            \/ api_response.body.kind = "nopath")
        => (pc' = "save" /\ dataReqs' = dataReqs /\ iter' = iter)]_vars
  /\ [][LoopLeft => (LoopLeft' /\ dataReqs' = dataReqs)]_vars

C10_Witness ==
  /\ pc = "exit"
  /\ fatal \in {"http", "schema"}
  /\ dataReqs >= 2
  /\ overall_df # <<>>

\* the process has ended: __main__ ran to its last line, or an exception
\* escaped
Ended == pc \in {"exit", "crashed"}

\* C11: in every run, whatever its outcome, the run log is uploaded exactly
\* once, after the loop and the sink write, and a failed upload neither
\* raises nor changes what the run reported.
C11_LogUploadedOnce ==
  /\ logUploads <= 1
  /\ Ended => logUploads = 1
  /\ logUploads = 1 => pc = "exit"
  /\ logStatus = "failed" => pc = "exit"



\* a 2xx response with a well-formed page is at the accumulation step
SuccessfulPage ==
  /\ pc = "handle"
  /\ api_response.status \in {200, 201}
  /\ api_response.body.kind = "page"

\* the page being handled reports isLoadComplete=true
PageComplete == api_response.body.hasFlag /\ api_response.body.isLoadComplete

PageEmpty == api_response.body.rows = <<>>

\* C12: the loop ends normally only right after a successful page that is
\* both complete and empty; after any other successful page the script is
\* back at the top of the loop, where the next data request is issued.
C12_StopIsConjunction ==
  /\ [][SuccessfulPage =>
          IF PageComplete /\ PageEmpty
            THEN pc' = "save" /\ fatal' = ""
            ELSE pc' = "loop"]_vars
  /\ [][(pc # "save" /\ pc' = "save" /\ fatal' = "")
          => (SuccessfulPage /\ PageComplete /\ PageEmpty)]_vars
  /\ []((pc = "loop" /\ iter < MaxIter) => ENABLED FetchPage)

C12_Witness ==
  /\ pc = "handle"
  /\ iterDataReqs = 1
  /\ Len(pages) >= 3
  /\ pages[1].complete /\ pages[1].rows # <<>>
  /\ ~pages[2].complete /\ pages[2].rows = <<>>

\* C14: handling a successful page with zero rows and isLoadComplete=false
\* leaves the ResultSet and the credential as they were, invokes no sink,
\* sets no failure, and puts the script back at the top of the loop.
C14_EmptyPageContinues ==
  [][(SuccessfulPage /\ PageEmpty /\ ~PageComplete)
     => (/\ overall_df' = overall_df
         /\ ACCESS_TOKEN' = ACCESS_TOKEN
         /\ sinkCalls' = <<>>
         /\ fatal' = ""
         /\ pc' = "loop")]_vars

C14_Witness ==
  /\ pc = "handle"
  /\ iterDataReqs = 1
  /\ Len(pages) >= 3
  /\ pages[1].rows # <<>>
  /\ ~pages[2].complete /\ pages[2].rows = <<>>
  /\ pages[3].rows # <<>>
  /\ Len(overall_df) = Len(pages[1].rows)

\* the script is single-threaded and every request is taken to return: a
\* step that can be taken is taken
LiveSpec == Init /\ [][Next]_vars /\ WF_vars(Next)

\* the response at the accumulation step is one the provider ends the
\* stream with: complete and empty, an error status, or a malformed body
TerminalResponse ==
  /\ pc = "handle"
  /\ \/ api_response.status \notin {200, 201}
     \/ api_response.body.kind \in {"nopath", "badrow"}
     \/ api_response.body.kind = "page" /\ PageComplete /\ PageEmpty

\* C13: once the data provider has returned a complete-and-empty page or a
\* fatal response, or the loop has been left, the run reaches its end; and
\* the loop is left only on such a response or on a failed token request,
\* never on a count of its own.
C13_Termination ==
  /\ TerminalResponse ~> Ended
  /\ LoopLeft ~> Ended
  /\ [][(~LoopLeft /\ LoopLeft') => (TerminalResponse \/ pc \in {"start", "reauth"})]_vars

C13_Witness ==
  /\ pc = "exit"
  /\ fatal = ""
  /\ iter = MaxIter
  /\ replacements >= 1

\* C15: every row of the ResultSet carries the run timestamp, which is fixed
\* before the first request and never changes, and the isLoadComplete value
\* of the page the row was served in.
C15_RowTagging ==
  /\ [](\A j \in DOMAIN overall_df :
          /\ overall_df[j].EXTRACT_TIMESTAMP = current_timestamp
          /\ overall_df[j].isLoadCompleted = pages[overall_df[j].data.page].complete)
  /\ [][current_timestamp' = current_timestamp]_vars

C15_Witness ==
  /\ current_timestamp = 2
  /\ \E j, k \in DOMAIN overall_df :
       /\ overall_df[j].data.page < overall_df[k].data.page
       /\ ~overall_df[j].isLoadCompleted
       /\ overall_df[k].isLoadCompleted

\* the token get_new_access_token returned last (None when it never did)
LatestToken ==
  LET good == {k \in DOMAIN tokenLog :
                 tokenLog[k].status = 200 /\ tokenLog[k].access_token # None}
  IN IF good = {} THEN None
     ELSE tokenLog[CHOOSE k \in good : \A l \in good : l <= k].access_token

\* C16: no data request goes out without a credential; every data request
\* carries the token obtained last, so the retry after a re-authentication
\* does not repeat the token that was answered with 401.
C16_CredentialValidity ==
  /\ [](\A i \in DOMAIN sentTokens : sentTokens[i] # None)
  /\ [][dataReqs' = dataReqs + 1 =>
          sentTokens' = Append(sentTokens, LatestToken)]_vars
  /\ [][pc = "retry" =>
          sentTokens'[Len(sentTokens')] # sentTokens[Len(sentTokens)]]_vars

C16_Witness ==
  /\ pc = "handle"
  /\ replacements = 2
  /\ iterDataReqs = 1
  /\ Len(sentTokens) = 5
  /\ sentTokens[5] = sentTokens[4]
  /\ sentTokens[4] # sentTokens[3]

\* the first token request gave get_new_access_token a token
PassedInitialAuth ==
  /\ tokenLog # <<>>
  /\ tokenLog[1].status = 200
  /\ tokenLog[1].access_token # None

\* C17 as stated: a run that has ended has logged the closing "completed
\* successfully" line exactly if it passed the initial authentication.
C17_ReportIffAuthenticated == Ended => (reported <=> PassedInitialAuth)

\* C17 as amended: the closing line is logged exactly when make_api_request
\* runs to its last statement: after every exit of the loop by break,
\* normal or fatal, once the sink write has been skipped or has succeeded;
\* it is not logged when the initial authentication fails or when an
\* exception escapes.
C17_ReportIffReturnedFromLoop ==
  /\ pc \in {"returned", "exit"} => (reported <=> PassedInitialAuth)
  /\ pc \notin {"returned", "exit"} => ~reported

C17_Witness ==
  /\ pc = "exit"
  /\ reported
  /\ fatal = "http"
  /\ sinkCalls # <<>>

\* C18: every integer guess below the number prints "too small" and every
\* one above it "too large", each time returning to the prompt; the loop is
\* left, and the congratulation printed, exactly on a guess equal to 10; the
\* program never ends on a wrong integer guess.
C18_GuessingLoop ==
  /\ \A k \in DOMAIN q7guesses :
       IntOf(q7guesses[k]).ok =>
         /\ IntOf(q7guesses[k]).val < 10 => (k <= Len(q7out) /\ q7out[k] = "too small")
         /\ IntOf(q7guesses[k]).val > 10 => (k <= Len(q7out) /\ q7out[k] = "too large")
         /\ IntOf(q7guesses[k]).val = 10 => (k = Len(q7guesses) /\ q7pc \in {"guessed", "done"})
         /\ IntOf(q7guesses[k]).val # 10 => (k < Len(q7guesses) \/ q7pc = "loop")
  /\ q7pc \in {"guessed", "done"} =>
       (q7guesses # <<>> /\ q7i = 10 /\ IntOf(q7guesses[Len(q7guesses)]).val = 10)
  /\ q7pc = "done" <=>
       (q7out # <<>> /\ q7out[Len(q7out)] = "congratulations")

C18_Witness ==
  /\ q7pc = "done"
  /\ Len(q7guesses) = 2
  /\ q7out = <<"too large", "congratulations">>

\* the positions of a password that hold one of the given characters
Positions(s, chars) == {k \in DOMAIN s : s[k] \in chars}

\* C19: validate prints "valid" exactly when the password has 6 to 12
\* characters and contains a lowercase letter, an uppercase letter, a digit
\* and one of $ # @; otherwise it prints "not valid".
C19_PasswordRule ==
  q9pc = "done" =>
    /\ q9out \in {"valid", "not valid"}
    /\ q9out = "valid" <=>
         /\ Len(pw) >= 6
         /\ Len(pw) <= 12
         /\ Positions(pw, {97}) # {}
         /\ Positions(pw, {90}) # {}
         /\ Positions(pw, {57}) # {}
         /\ Positions(pw, {36, 35, 64}) # {}

C19_Witness ==
  /\ q9pc = "done"
  /\ q9out = "valid"
  /\ Len(pw) = 6
  /\ Positions(pw, {35}) # {}

====
